---- MODULE Spec2Model ----
(***************************************************************************)
(* Model of src/proj.py: the Cournot duopoly script.                       *)
(*                                                                         *)
(*   PayoffMatrices(c)      builds the two 21x21 profit tables A and B.    *)
(*   NashEquilibrium(A,B,c) scans every (q1, q2), keeps the pairs that are *)
(*                          mutual best responses and prints them.         *)
(*   main()                 sweeps c = 0..30 and prints one block per c.   *)
(*                                                                         *)
(* The program is sequential; pc is the statement the interpreter is at.   *)
(* Each loop iteration of the source is one step of the model.  The tables *)
(* are numpy float64 arrays; every value the program stores is an integer  *)
(* of magnitude below 2^53, so float arithmetic is exact and the cells are *)
(* modelled as integers.  Standard output is the sequence out of printed   *)
(* lines; a line is a record holding the format string's kind and the      *)
(* values substituted into it.                                             *)
(***************************************************************************)
EXTENDS Integers, Sequences, FiniteSets, TLC

VARIABLES
    pc,          \* statement about to execute
    c,           \* marginal cost: main's loop variable, passed by value
    A,           \* Firm 1's table, A[q1][q2]
    B,           \* Firm 2's table, B[q2][q1]
    q1,          \* outer loop variable of PayoffMatrices / NashEquilibrium
    q2,          \* inner loop variable of PayoffMatrices / NashEquilibrium
    equilibria,  \* NashEquilibrium's list of (q1, q2) tuples
    eq_idx,      \* position of `for eq in equilibria` in the list
    out          \* lines printed so far

vars == <<pc, c, A, B, q1, q2, equilibria, eq_idx, out>>

----------------------------------------------------------------------------
(* Program constants                                                       *)

\* n = 21 in PayoffMatrices
n == 21

\* the demand intercept in the price (30 - q1 - q2)
PriceIntercept == 30

\* range(31) in main
CostCount == 31

\* "-" * 30 and "=" * 30 in main
RuleWidth == 30

(* Bounds of the specification SpecNE, which runs NashEquilibrium on       *)
(* arbitrary square tables                                                 *)

\* side of the square tables SpecNE draws
Dim == 2

\* The payoff values SpecNE draws.  NashEquilibrium reads a table only
\* through the comparison of a cell with the maximum of its column, so two
\* levels produce every pattern of maximisers and ties a column can have.
PayoffLevels == {0, 1}

----------------------------------------------------------------------------
(* Tables                                                                  *)

\* np.zeros((k, k))
Zeros(k) == [i \in 0..(k - 1) |-> [j \in 0..(k - 1) |-> 0]]

\* M.shape[0]
Shape0(M) == Cardinality(DOMAIN M)

\* M[i, j] = v
SetCell(M, i, j, v) == [M EXCEPT ![i][j] = v]

\* ColMax with the scan started at row 1: row 0 is never looked at
ColMaxSkipFirst(M, j) ==
    LET col == {M[i][j] : i \in 1..(Shape0(M) - 1)}
    IN  CHOOSE v \in col : \A w \in col : w <= v

\* M[:, j].max()
RECURSIVE ColMaxFrom(_, _, _)
ColMaxFrom(M, j, i) ==
    IF i = 0 THEN M[0][j]
    ELSE LET rest == ColMaxFrom(M, j, i - 1)
         IN  IF M[i][j] > rest THEN M[i][j] ELSE rest

ColMax(M, j) == ColMaxFrom(M, j, Shape0(M) - 1)

----------------------------------------------------------------------------
(* Printed lines                                                           *)

\* f"Marginal cost c = {c}"
HeaderLine(cost) == [kind |-> "header", c |-> cost]

\* "-" * 30
DashLine == [kind |-> "dashes", width |-> RuleWidth]

\* "=" * 30
EqualsLine == [kind |-> "equals", width |-> RuleWidth]

\* print()
BlankLine == [kind |-> "blank"]

\* EqLine with the two quantities of the tuple exchanged
EqLineSwapped(cost, eq) == [kind |-> "eq", c |-> cost, q1 |-> eq[2], q2 |-> eq[1]]

\* f"For marginal cost c = {c}, the strategy profile (q1={eq[0]}, q2={eq[1]}) is a Nash equilibrium."
EqLine(cost, eq) == [kind |-> "eq", c |-> cost, q1 |-> eq[1], q2 |-> eq[2]]

\* f"For marginal cost c = {c}, no pure strategy Nash equilibrium exists."
NoneLine(cost) == [kind |-> "none", c |-> cost]

----------------------------------------------------------------------------
(* PayoffMatrices                                                          *)

\* Profit1 with the rival's quantity left out of the price
Profit1NoRival(cost, a, b) == ((PriceIntercept - a) * a) - (cost * a)

\* ((30 - q1 - q2) * q1) - (c * q1)
Profit1(cost, a, b) == ((PriceIntercept - a - b) * a) - (cost * a)

\* Profit2 as a copy of the line above it: Firm 1's quantity where Firm 2's belongs
Profit2CopyOfProfit1(cost, a, b) == ((PriceIntercept - a - b) * a) - (cost * a)

\* ((30 - q1 - q2) * q2) - (c * q2)
Profit2(cost, a, b) == ((PriceIntercept - a - b) * b) - (cost * b)

\* PMRange one short: the last row and column are never written
PMRangeShort == n - 1

\* range(n) of the two loops of PayoffMatrices
PMRange == n

\* n = 21; A = np.zeros((n, n)); B = np.zeros((n, n)); enter the loops
PMInit ==
    /\ pc = "pm_init"
    /\ A' = Zeros(n)
    /\ B' = Zeros(n)
    /\ q1' = 0
    /\ q2' = 0
    /\ pc' = IF PMRange > 0 THEN "pm_loop" ELSE "ne_init"
    /\ UNCHANGED <<c, equilibria, eq_idx, out>>

\* one iteration of the inner loop: both cells written, then the loop
\* variables advance; after the last cell the tables are returned to main,
\* which calls NashEquilibrium
PMStep ==
    /\ pc = "pm_loop"
    /\ A' = SetCell(A, q1, q2, Profit1(c, q1, q2))
    /\ B' = SetCell(B, q2, q1, Profit2(c, q1, q2))
    /\ IF q2 + 1 < PMRange
         THEN /\ q2' = q2 + 1
              /\ UNCHANGED <<q1, pc>>
         ELSE IF q1 + 1 < PMRange
                THEN /\ q1' = q1 + 1
                     /\ q2' = 0
                     /\ UNCHANGED pc
                ELSE /\ pc' = "ne_init"
                     /\ UNCHANGED <<q1, q2>>
    /\ UNCHANGED <<c, equilibria, eq_idx, out>>

----------------------------------------------------------------------------
(* NashEquilibrium                                                         *)

\* Firm1BestResponse keeping only the first maximiser of the column
Firm1FirstMaximiser(a, b) ==
    /\ A[a][b] >= ColMax(A, b)
    /\ \A a2 \in 0..(a - 1) : A[a2][b] < A[a][b]

\* firm1_best_response = A[q1, q2] >= A[:, q2].max()
Firm1BestResponse(a, b) == A[a][b] >= ColMax(A, b)

\* Firm2BestResponse with a strict comparison
Firm2StrictlyBest(a, b) == B[b][a] > ColMax(B, a)

\* firm2_best_response = B[q2, q1] >= B[:, q1].max()
Firm2BestResponse(a, b) == B[b][a] >= ColMax(B, a)

\* n = A.shape[0]; equilibria = []; enter the loops
NEInit ==
    /\ pc = "ne_init"
    /\ equilibria' = <<>>
    /\ q1' = 0
    /\ q2' = 0
    /\ pc' = IF Shape0(A) > 0 THEN "ne_loop" ELSE "ne_if"
    /\ UNCHANGED <<c, A, B, eq_idx, out>>

\* one iteration of the inner loop: the pair is appended when both checks
\* hold, then the loop variables advance
NEStep ==
    /\ pc = "ne_loop"
    /\ equilibria' = IF Firm1BestResponse(q1, q2) /\ Firm2BestResponse(q1, q2)
                       THEN Append(equilibria, <<q1, q2>>)
                       ELSE equilibria
    /\ IF q2 + 1 < Shape0(A)
         THEN /\ q2' = q2 + 1
              /\ UNCHANGED <<q1, pc>>
         ELSE IF q1 + 1 < Shape0(A)
                THEN /\ q1' = q1 + 1
                     /\ q2' = 0
                     /\ UNCHANGED pc
                ELSE /\ pc' = "ne_if"
                     /\ UNCHANGED <<q1, q2>>
    /\ UNCHANGED <<c, A, B, eq_idx, out>>

\* NEIf with the absence line printed on both branches
NEIfNoElse ==
    /\ pc = "ne_if"
    /\ out' = Append(out, NoneLine(c))
    /\ IF equilibria # <<>>
         THEN /\ eq_idx' = 1
              /\ pc' = "ne_for"
         ELSE /\ pc' = "ne_ret"
              /\ UNCHANGED eq_idx
    /\ UNCHANGED <<c, A, B, q1, q2, equilibria>>

\* if equilibria: enter the printing loop; else: print the absence line
NEIf ==
    /\ pc = "ne_if"
    /\ IF equilibria # <<>>
         THEN /\ eq_idx' = 1
              /\ pc' = "ne_for"
              /\ UNCHANGED out
         ELSE /\ out' = Append(out, NoneLine(c))
              /\ pc' = "ne_ret"
              /\ UNCHANGED eq_idx
    /\ UNCHANGED <<c, A, B, q1, q2, equilibria>>

\* one iteration of `for eq in equilibria: print(...)`
NEPrint ==
    /\ pc = "ne_for"
    /\ out' = Append(out, EqLine(c, equilibria[eq_idx]))
    /\ IF eq_idx < Len(equilibria)
         THEN /\ eq_idx' = eq_idx + 1
              /\ UNCHANGED pc
         ELSE /\ pc' = "ne_ret"
              /\ UNCHANGED eq_idx
    /\ UNCHANGED <<c, A, B, q1, q2, equilibria>>

----------------------------------------------------------------------------
(* main                                                                    *)

\* print(f"Marginal cost c = {c}")
MainHeader ==
    /\ pc = "main_header"
    /\ out' = Append(out, HeaderLine(c))
    /\ pc' = "main_dashes"
    /\ UNCHANGED <<c, A, B, q1, q2, equilibria, eq_idx>>

\* MainDashes with the tables built once, for the first c only
MainDashesCached ==
    /\ pc = "main_dashes"
    /\ out' = Append(out, DashLine)
    /\ pc' = IF c = 0 THEN "pm_init" ELSE "ne_init"
    /\ UNCHANGED <<c, A, B, q1, q2, equilibria, eq_idx>>

\* print("-" * 30), then the call PayoffMatrices(c)
MainDashes ==
    /\ pc = "main_dashes"
    /\ out' = Append(out, DashLine)
    /\ pc' = "pm_init"
    /\ UNCHANGED <<c, A, B, q1, q2, equilibria, eq_idx>>

\* print() after NashEquilibrium returned
MainBlank ==
    /\ pc = "ne_ret"
    /\ out' = Append(out, BlankLine)
    /\ pc' = "main_equals"
    /\ UNCHANGED <<c, A, B, q1, q2, equilibria, eq_idx>>

\* print("=" * 30)
MainEquals ==
    /\ pc = "main_equals"
    /\ out' = Append(out, EqualsLine)
    /\ pc' = "main_blank2"
    /\ UNCHANGED <<c, A, B, q1, q2, equilibria, eq_idx>>

\* print(), then `for c in range(31)` takes its next value or ends
MainNext ==
    /\ pc = "main_blank2"
    /\ out' = Append(out, BlankLine)
    /\ IF c + 1 < CostCount
         THEN /\ c' = c + 1
              /\ pc' = "main_header"
         ELSE /\ pc' = "done"
              /\ UNCHANGED c
    /\ UNCHANGED <<A, B, q1, q2, equilibria, eq_idx>>

----------------------------------------------------------------------------
(* Specifications                                                          *)

\* The program: main() entered, the loop variable at its first value, no
\* table bound yet, nothing printed.
Init ==
    /\ pc = "main_header"
    /\ c = 0
    /\ A = <<>>
    /\ B = <<>>
    /\ q1 = 0
    /\ q2 = 0
    /\ equilibria = <<>>
    /\ eq_idx = 0
    /\ out = <<>>

Next ==
    \/ MainHeader
    \/ MainDashes
    \/ PMInit
    \/ PMStep
    \/ NEInit
    \/ NEStep
    \/ NEIf
    \/ NEPrint
    \/ MainBlank
    \/ MainEquals
    \/ MainNext

Spec == Init /\ [][Next]_vars

\* The square tables SpecNE draws
Tables == [0..(Dim - 1) -> [0..(Dim - 1) -> PayoffLevels]]

\* One call NashEquilibrium(A, B, c) on arbitrary tables, with c at either
\* end of main's range.
InitNE ==
    /\ pc = "ne_init"
    /\ c \in {0, CostCount - 1}
    /\ A \in Tables
    /\ B \in Tables
    /\ q1 = 0
    /\ q2 = 0
    /\ equilibria = <<>>
    /\ eq_idx = 0
    /\ out = <<>>

NextNE ==
    \/ NEInit
    \/ NEStep
    \/ NEIf
    \/ NEPrint

SpecNE == InitNE /\ [][NextNE]_vars

\* The same call with the interpreter always executing the next statement.
\* c only reaches the printed text, so one value of it is drawn.
InitCall == InitNE /\ c = 0

FairSpecNE == InitCall /\ [][NextNE]_vars /\ WF_vars(NextNE)

----------------------------------------------------------------------------
(* What the output shows                                                   *)

\* positions of the lines of kind k
LinesOfKind(k) == {i \in DOMAIN out : out[i].kind = k}

\* positions of the equilibrium lines printed with cost k
EqLinesFor(k) == {i \in LinesOfKind("eq") : out[i].c = k}

\* the pairs reported with cost k
ReportedFor(k) == {<<out[i].q1, out[i].q2>> : i \in EqLinesFor(k)}

\* the pairs (a, b) of the current tables from which neither firm has a
\* strictly better deviation
Index == 0..(Shape0(A) - 1)

NoBetterDeviation(a, b) ==
    /\ \A a2 \in Index : ~(A[a2][b] > A[a][b])
    /\ \A b2 \in Index : ~(B[b2][a] > B[b][a])

MutualBest == {p \in Index \X Index : NoBetterDeviation(p[1], p[2])}

\* (a, b) strictly before (a2, b2) in lexicographic order
LexLess(a, b, a2, b2) == a < a2 \/ (a = a2 /\ b < b2)

----------------------------------------------------------------------------
(* C1: when PayoffMatrices(c) returns, A and B are 21x21 and every cell    *)
(* holds A[q1,q2] = (30 - q1 - q2)*q1 - c*q1 and                           *)
(* B[q2,q1] = (30 - q1 - q2)*q2 - c*q2.                                   *)
C1_PayoffTables ==
    pc = "ne_init" =>
        /\ DOMAIN A = 0..20
        /\ DOMAIN B = 0..20
        /\ \A a \in 0..20 : DOMAIN A[a] = 0..20 /\ DOMAIN B[a] = 0..20
        /\ \A a \in 0..20 : \A b \in 0..20 :
               /\ A[a][b] = (30 - a - b) * a - c * a
               /\ B[b][a] = (30 - a - b) * b - c * b

\* PayoffMatrices(2) has returned, with the corner cells as computed by hand
C1_Witness ==
    /\ pc = "ne_init"
    /\ c = 2
    /\ A[20][20] = -240
    /\ B[20][0] = 160
    /\ A[20][0] = 160
    /\ A[0][20] = 0

----------------------------------------------------------------------------
(* C2: for any square tables, the pairs NashEquilibrium reports are        *)
(* exactly the pairs from which no firm has a strictly better deviation;   *)
(* every maximiser of a column qualifies, not only the first.              *)
C2_ReportedIsMutualBest ==
    pc = "ne_ret" => ReportedFor(c) = MutualBest

\* a call that reported (1, 0) although row 0 ties with row 1 in column 0
\* of A: a maximiser that is not the first one
C2_Witness ==
    /\ pc = "ne_ret"
    /\ A[0][0] = A[1][0]
    /\ <<0, 0>> \in ReportedFor(c)
    /\ <<1, 0>> \in ReportedFor(c)

----------------------------------------------------------------------------
(* C3: for every c of the sweep the reported set is symmetric: with        *)
(* (q1, q2) it contains (q2, q1).                                          *)
C3_Symmetric ==
    pc = "ne_ret" =>
        \A p \in ReportedFor(c) : <<p[2], p[1]>> \in ReportedFor(c)

\* c = 0 reported the asymmetric pair (9, 11) and its mirror (11, 9)
C3_Witness ==
    /\ pc = "ne_ret"
    /\ c = 0
    /\ <<9, 11>> \in ReportedFor(0)
    /\ <<11, 9>> \in ReportedFor(0)

----------------------------------------------------------------------------
(* C4: over the sweep the number of equilibrium lines is non-increasing in *)
(* c: when the sweep is over, the block of c+1 holds no more equilibrium   *)
(* lines than the block of c, for every c in 0..29.                        *)
C4_CountNonIncreasing ==
    pc = "done" =>
        \A k \in 0..29 :
            Cardinality(EqLinesFor(k + 1)) <= Cardinality(EqLinesFor(k))

\* the sweep is over and the count did drop, from 3 at c = 29 to 1 at c = 30
C4_Witness ==
    /\ pc = "done"
    /\ Cardinality(EqLinesFor(0)) = 3
    /\ Cardinality(EqLinesFor(29)) = 3
    /\ Cardinality(EqLinesFor(30)) = 1

----------------------------------------------------------------------------
(* C5: for every c of the sweep the equilibrium list is non-empty when     *)
(* NashEquilibrium tests it, and the absence line is never printed.        *)
C5_EquilibriumExists ==
    /\ pc = "ne_if" => equilibria # <<>>
    /\ LinesOfKind("none") = {}

\* the sweep is over and every one of the 31 costs has an equilibrium line
C5_Witness ==
    /\ pc = "done"
    /\ \A k \in 0..30 : EqLinesFor(k) # {}

----------------------------------------------------------------------------
(* C6: for c = 30 the reported set is exactly {(0, 0)}.                    *)
C6_Cost30 ==
    (pc = "ne_ret" /\ c = 30) => ReportedFor(30) = {<<0, 0>>}

\* NashEquilibrium returned for c = 30 having printed one equilibrium line
C6_Witness ==
    /\ pc = "ne_ret"
    /\ c = 30
    /\ Cardinality(EqLinesFor(30)) = 1

----------------------------------------------------------------------------
(* C7: for c = 0 more than one pair is reported, and some reported pair    *)
(* has both quantities within 1 of 10.                                     *)
C7_Cost0 ==
    (pc = "ne_ret" /\ c = 0) =>
        /\ Cardinality(ReportedFor(0)) > 1
        /\ \E p \in ReportedFor(0) : p[1] \in 9..11 /\ p[2] \in 9..11

\* NashEquilibrium returned for c = 0 having reported (10, 10)
C7_Witness ==
    /\ pc = "ne_ret"
    /\ c = 0
    /\ <<10, 10>> \in ReportedFor(0)

----------------------------------------------------------------------------
(* C8: within one call of NashEquilibrium the equilibrium lines come in    *)
(* strictly increasing lexicographic order of (q1, q2), every printed line *)
(* carries the c of the call, and on return each qualifying pair has been  *)
(* printed exactly once.                                                   *)
C8_PrintOrder ==
    /\ \A i \in LinesOfKind("eq") : \A j \in LinesOfKind("eq") :
           i < j => LexLess(out[i].q1, out[i].q2, out[j].q1, out[j].q2)
    /\ \A i \in LinesOfKind("eq") \cup LinesOfKind("none") : out[i].c = c
    /\ pc = "ne_ret" =>
           \A p \in MutualBest :
               Cardinality({i \in LinesOfKind("eq") : <<out[i].q1, out[i].q2>> = p}) = 1

\* a call with c = 30 that printed (0, 1) and later (1, 0): q1 is the outer
\* key of the order
C8_Witness ==
    /\ pc = "ne_ret"
    /\ c = 30
    /\ \E i \in LinesOfKind("eq") : \E j \in LinesOfKind("eq") :
           /\ i < j
           /\ out[i].q1 = 0 /\ out[i].q2 = 1
           /\ out[j].q1 = 1 /\ out[j].q2 = 0

----------------------------------------------------------------------------
(* C9: the driver runs c = 0, 1, ..., 30 in ascending order, 31 iterations *)
(* in all; each block is header, 30 dashes, result lines, blank, 30 '=',   *)
(* blank; every result line lies in the block of its own c; and            *)
(* NashEquilibrium always runs on the tables built for the current c.      *)
(* The output is examined each time a block is complete.                   *)

\* the c of the header that opens the block line i lies in
BlockCost(i) ==
    LET hs == {j \in LinesOfKind("header") : j <= i}
    IN  out[CHOOSE j \in hs : \A k \in hs : k <= j].c

\* line i may follow line i - 1
FollowsInBlock(i) ==
    LET kind == out[i].kind
        prev == IF i = 1 THEN "start" ELSE out[i - 1].kind
    IN  CASE kind = "header" ->
               \/ prev = "start" /\ out[i].c = 0
               \/ /\ i > 3
                  /\ prev = "blank"
                  /\ out[i - 2].kind = "equals"
                  /\ out[i].c = BlockCost(i - 1) + 1
          [] kind = "dashes" -> prev = "header" /\ out[i].width = 30
          [] kind = "eq"     -> prev \in {"dashes", "eq"} /\ out[i].c = BlockCost(i)
          [] kind = "none"   -> prev = "dashes" /\ out[i].c = BlockCost(i)
          [] kind = "blank"  -> prev \in {"eq", "none", "equals"}
          [] kind = "equals" ->
               /\ prev = "blank"
               /\ out[i - 2].kind \in {"eq", "none"}
               /\ out[i].width = 30
          [] OTHER -> FALSE

C9_DriverBlocks ==
    /\ pc \in {"main_header", "done"} => \A i \in DOMAIN out : FollowsInBlock(i)
    /\ pc \in {"ne_init", "ne_loop", "ne_if", "ne_for"} =>
           \A a \in 0..20 : \A b \in 0..20 :
               /\ A[a][b] = (30 - a - b) * a - c * a
               /\ B[b][a] = (30 - a - b) * b - c * b
    /\ pc = "done" =>
           /\ Cardinality(LinesOfKind("header")) = 31
           /\ {out[i].c : i \in LinesOfKind("header")} = 0..30
           /\ Cardinality(LinesOfKind("equals")) = 31
           /\ out[Len(out)].kind = "blank"
           /\ out[Len(out) - 1].kind = "equals"

\* the sweep is over: the output opens with the block of c = 0 and the last
\* header is the one of c = 30
C9_Witness ==
    /\ pc = "done"
    /\ out[1] = HeaderLine(0)
    /\ out[3].kind = "eq"
    /\ BlockCost(Len(out)) = 30

----------------------------------------------------------------------------
(* C10: every call of NashEquilibrium returns, and when it has returned it *)
(* has printed either at least one equilibrium line and no absence line,   *)
(* or exactly one absence line and no equilibrium line.                    *)
ExactlyOneOutcome ==
    \/ LinesOfKind("eq") # {} /\ LinesOfKind("none") = {}
    \/ LinesOfKind("eq") = {} /\ Cardinality(LinesOfKind("none")) = 1

C10_TerminatesWithOneOutcome ==
    /\ <>(pc = "ne_ret")
    /\ [](pc = "ne_ret" => ExactlyOneOutcome /\ Len(out) = Cardinality(MutualBest) + Cardinality(LinesOfKind("none")))

\* a call that returned with the absence line alone
C10_Witness ==
    /\ pc = "ne_ret"
    /\ MutualBest = {}
    /\ Len(out) = 1
    /\ out[1].kind = "none"

====
